---- MODULE Spec2Model ----
(***************************************************************************)
(* Verification model of the Naukri profile updater:                       *)
(*   - scheduler.py            window policy, jittered triggers, poll loop *)
(*   - naukri_updater/main.py  NaukriUpdater.run and its strategy steps    *)
(*   - naukri_updater/config.py configuration predicates                   *)
(* Time is counted in minutes of IST, minute 0 being Monday 00:00.         *)
(***************************************************************************)
EXTENDS Integers, Sequences, FiniteSets, TLC

VARIABLES
    now,          \* IST wall clock, minutes since Monday 00:00
    started,      \* value of now when the process started
    hostOffset,   \* host-local time minus IST, in minutes
    pc,           \* position of the scheduler process
    nextDaily,    \* next_run of the daily job (IST minutes), -1 before registration
    nextHourly,   \* next_run of the hourly job (IST minutes), -1 before registration
    queue,        \* jobs run_pending still has to run in this poll
    trig,         \* record of the trigger fired last (kept until the next one fires)
    loopEntered,  \* the `while True` loop of main has been entered
    startupFired, \* number of startup triggers fired
    probe,        \* last evaluation of the window policy on a probed timestamp
    active,       \* job functions entered and not yet returned
    cfg,          \* configuration read from the environment (config.py)
    rpc,          \* position inside the one-shot main / NaukriUpdater.run
    driver,       \* browser session of the updater: "none", "live" or "quit"
    loggedIn,     \* local logged_in of run
    success,      \* local success of run
    events,       \* what the current run has done to the browser, in order
    obs,          \* what the current run observed of the remote site
    result,       \* return value of run: "none", "true" or "false"
    exitCode,     \* exit code of the one-shot process, -1 while it runs
    jar,          \* cookies held by the browser session
    lookup,       \* last call of find_element_with_fallback: what it queried and returned
    headline,     \* the resume headline on the site and the toggles applied to it
    otp           \* a wait_for_otp call: mailbox, clock, polls and result

schedVars == <<now, started, hostOffset, pc, nextDaily, nextHourly, queue, trig,
               loopEntered, startupFired, probe, active>>

\* state of the functions that are run on their own
pureVars == <<lookup, headline, otp>>

runVars == <<cfg, rpc, driver, loggedIn, success, events, obs, result, exitCode, jar,
             pureVars>>

vars == <<schedVars, runVars>>

-----------------------------------------------------------------------------
(* Bounds of the model *)

\* minutes of process lifetime explored
MaxElapsed == 66

-----------------------------------------------------------------------------
(* Calendar arithmetic: datetime.now(IST).weekday() and .hour *)

MinutesPerHour == 60 * 1
MinutesPerDay == 24 * 60
DaysPerWeek == 6 + 1
MinutesPerWeek == DaysPerWeek * MinutesPerDay

\* Python weekday(): Monday = 0 .. Sunday = 6
Weekday(t) == (t \div MinutesPerDay) % DaysPerWeek
Hour(t) == (t % MinutesPerDay) \div MinutesPerHour
Minute(t) == t % MinutesPerHour
At(d, h, m) == d * MinutesPerDay + h * MinutesPerHour + m

-----------------------------------------------------------------------------
(* scheduler.py: configuration constants *)

ALLOWED_DAYS == {0, 1, 2, 3, 4, 5}
START_HOUR == 6
END_HOUR == 18
\* RESUME_UPLOAD_TIME = "07:00", as minutes after midnight
RESUME_UPLOAD_TIME == 7 * MinutesPerHour
\* random.randint(1, 15)
JitterMinutes_from_zero == 0 .. 15

JitterMinutes_to_sixteen == 1 .. 16

JitterMinutes == 1 .. 15
\* time.sleep(60) of the polling loop, in minutes
PollSleep == 60 \div MinutesPerHour
\* schedule.every(1).hours
HourlyPeriod == 1 * MinutesPerHour

-----------------------------------------------------------------------------
(* scheduler.py: is_within_allowed_window, as a function of the clock read *)

is_within_allowed_window_inclusive_end(t) ==
    IF Weekday(t) \notin ALLOWED_DAYS THEN FALSE
    ELSE IF ~(START_HOUR <= Hour(t) /\ Hour(t) <= END_HOUR) THEN FALSE
    ELSE TRUE

is_within_allowed_window(t) ==
    IF Weekday(t) \notin ALLOWED_DAYS THEN FALSE
    ELSE IF ~(START_HOUR <= Hour(t) /\ Hour(t) < END_HOUR) THEN FALSE
    ELSE TRUE

\* `if not is_within_allowed_window(): return` at the head of _run_with_delay
FirstCheckReturns_never(t) == FALSE

FirstCheckReturns(t) == ~is_within_allowed_window(t)

\* the same test after time.sleep(delay_seconds)
RecheckReturns_never(t) == FALSE

RecheckReturns(t) == ~is_within_allowed_window(t)

-----------------------------------------------------------------------------
(* scheduler.py: the jobs and what the schedule library does with them *)

Triggers == {"startup", "daily", "hourly"}

\* run_resume_update passes "resume", run_profile_update passes "profile";
\* main calls run_profile_update directly at startup
ModeOf(kind) == IF kind = "daily" THEN "resume" ELSE "profile"

\* schedule.every().day.at("07:00"): the next 07:00 of the HOST clock whose
\* time of day is still ahead of the instant t, given back in IST minutes
NextDailyRun(t, off) ==
    LET host == t + off
        tod == host % MinutesPerDay
        midnight == host - tod
    IN  IF RESUME_UPLOAD_TIME > tod
        THEN midnight + RESUME_UPLOAD_TIME - off
        ELSE midnight + MinutesPerDay + RESUME_UPLOAD_TIME - off

\* schedule.every(1).hours: next_run = now + 1 hour, at registration and after each run
NextHourlyRun(t) == t + HourlyPeriod

\* schedule.run_pending(): the jobs whose next_run has passed, ordered by next_run
\* (the daily job was registered first and wins a tie)
DueJobs(t) ==
    LET d == nextDaily >= 0 /\ t >= nextDaily
        h == nextHourly >= 0 /\ t >= nextHourly
    IN  IF d /\ h THEN (IF nextHourly < nextDaily THEN <<"hourly", "daily">>
                                                  ELSE <<"daily", "hourly">>)
        ELSE IF d THEN <<"daily">>
        ELSE IF h THEN <<"hourly">>
        ELSE <<>>

-----------------------------------------------------------------------------
(* scheduler.py: _run_with_delay *)

\* lastDelay: the delay the trigger before this one slept, 0 if it slept none
NoTrigger ==
    [kind |-> "none", mode |-> "none", firedAt |-> -1, check1 |-> "none",
     jitter |-> 0, lastDelay |-> 0, recheckAt |-> -1, check2 |-> "none", created |-> FALSE,
     runCalled |-> FALSE, runEntered |-> FALSE, raised |-> "none",
     outcome |-> "none"]

\* exception classes that `except Exception` of _run_with_delay catches
ExceptionSubclasses == {"ImportError", "TypeError", "WebDriverException"}

CaughtByRunWithDelay_webdriver_only(exc) == exc = "WebDriverException"

CaughtByRunWithDelay(exc) == exc \in ExceptionSubclasses

\* keyword parameters of NaukriUpdater.run: `def run(self) -> bool`
RunParameters == {}

\* Python call binding: an unexpected keyword argument raises TypeError before
\* the first statement of the callee
RunCall(kwargs) == IF kwargs \subseteq RunParameters THEN "entered" ELSE "TypeError"

\* keyword arguments of the call `updater.run(mode=mode)`
SchedulerRunKwargs == {"mode"}

\* control returns from the job function at time t; q is the list run_pending
\* is working through, the returning job at its head (empty for the startup call).
\* A scheduled job is given its next_run when it returns.
Return(kind, t, q) ==
    IF kind = "startup"
    THEN /\ pc' = "loop"
         /\ loopEntered' = TRUE
         /\ queue' = <<>>
         /\ UNCHANGED <<nextDaily, nextHourly>>
    ELSE /\ queue' = Tail(q)
         /\ pc' = IF Tail(q) = <<>> THEN "sleep" ELSE "pending"
         /\ nextDaily' = IF kind = "daily" THEN NextDailyRun(t, hostOffset) ELSE nextDaily
         /\ nextHourly' = IF kind = "hourly" THEN NextHourlyRun(t) ELSE nextHourly
         /\ UNCHANGED loopEntered

\* the job function is entered at time t: first window check
Fire(kind, t, q) ==
    IF FirstCheckReturns(t)
    THEN /\ trig' = [NoTrigger EXCEPT !.kind = kind, !.mode = ModeOf(kind),
                        !.firedAt = t, !.check1 = "fail", !.outcome = "skipped",
                        !.lastDelay = trig.jitter]
         /\ active' = active
         /\ Return(kind, t, q)
    ELSE /\ trig' = [NoTrigger EXCEPT !.kind = kind, !.mode = ModeOf(kind),
                        !.firedAt = t, !.check1 = "pass", !.lastDelay = trig.jitter]
         /\ active' = active + 1
         /\ pc' = "jitter"
         /\ queue' = q
         /\ UNCHANGED <<nextDaily, nextHourly, loopEntered>>

\* main(): register the two jobs, then call run_profile_update() once
Main ==
    /\ pc = "main"
    /\ startupFired' = startupFired + 1
    /\ active' = IF FirstCheckReturns(now) THEN active ELSE active + 1
    /\ IF FirstCheckReturns(now)
       THEN /\ trig' = [NoTrigger EXCEPT !.kind = "startup", !.mode = ModeOf("startup"),
                           !.firedAt = now, !.check1 = "fail", !.outcome = "skipped"]
            /\ pc' = "loop"
            /\ loopEntered' = TRUE
       ELSE /\ trig' = [NoTrigger EXCEPT !.kind = "startup", !.mode = ModeOf("startup"),
                           !.firedAt = now, !.check1 = "pass"]
            /\ pc' = "jitter"
            /\ UNCHANGED loopEntered
    /\ nextDaily' = NextDailyRun(now, hostOffset)
    /\ nextHourly' = NextHourlyRun(now)
    /\ UNCHANGED <<now, started, hostOffset, queue, probe, runVars>>

\* time.sleep(delay_seconds) with delay_minutes = random.randint(1, 15), then the
\* re-check of the window
JitterSleep ==
    /\ pc = "jitter"
    /\ \E d \in JitterMinutes :
         /\ now + d - started <= MaxElapsed
         /\ now' = now + d
         /\ active' = IF RecheckReturns(now + d) THEN active - 1 ELSE active
         /\ IF RecheckReturns(now + d)
            THEN /\ trig' = [trig EXCEPT !.jitter = d, !.recheckAt = now + d,
                                !.check2 = "fail", !.outcome = "aborted"]
                 /\ Return(trig.kind, now + d, queue)
            ELSE /\ trig' = [trig EXCEPT !.jitter = d, !.recheckAt = now + d,
                                !.check2 = "pass"]
                 /\ pc' = "dispatch"
                 /\ UNCHANGED <<nextDaily, nextHourly, queue, loopEntered>>
    /\ UNCHANGED <<started, hostOffset, startupFired, probe, runVars>>

\* the try block: import and create NaukriUpdater, call updater.run(mode=mode),
\* log by its result; `except Exception` logs whatever was raised
Dispatch ==
    /\ pc = "dispatch"
    /\ \E imported \in BOOLEAN :
         LET call == IF imported THEN RunCall(SchedulerRunKwargs) ELSE "none"
             exc == IF ~imported THEN "ImportError"
                    ELSE IF call = "TypeError" THEN "TypeError" ELSE "none"
         IN  IF exc # "none"
             THEN /\ trig' = [trig EXCEPT !.created = imported, !.runCalled = imported,
                                 !.raised = exc, !.outcome = "exception"]
                  /\ active' = active - 1
                  /\ IF CaughtByRunWithDelay(exc)
                     THEN Return(trig.kind, now, queue)
                     ELSE /\ pc' = "exited"
                          /\ UNCHANGED <<nextDaily, nextHourly, queue, loopEntered>>
                  /\ UNCHANGED runVars
             ELSE \* the call binds: the body of run starts
                  /\ trig' = [trig EXCEPT !.created = TRUE, !.runCalled = TRUE,
                                 !.runEntered = TRUE]
                  /\ pc' = "running"
                  /\ rpc' = "validate"
                  /\ UNCHANGED <<nextDaily, nextHourly, queue, loopEntered, active, cfg,
                                 driver, loggedIn, success, events, obs, result, exitCode,
                                 jar, pureVars>>
    /\ UNCHANGED <<now, started, hostOffset, startupFired, probe>>

\* one pass of `while True: schedule.run_pending(); time.sleep(60)` with no job due
LoopIdle ==
    /\ pc = "loop"
    /\ DueJobs(now) = <<>>
    /\ now + PollSleep - started <= MaxElapsed
    /\ now' = now + PollSleep
    /\ UNCHANGED <<started, hostOffset, pc, nextDaily, nextHourly, queue, trig,
                   loopEntered, startupFired, probe, active, runVars>>

\* schedule.run_pending() is called from the `while True` loop of main and
\* nowhere else: a poll starts only when the process is at the top of that loop
PollStarts_on_timer(p) == p \in {"loop", "jitter", "dispatch"}

PollStarts(p) == p = "loop"

\* run_pending() finds jobs due and calls the first of them
RunPending ==
    /\ PollStarts(pc)
    /\ DueJobs(now) # <<>>
    /\ Fire(Head(DueJobs(now)), now, DueJobs(now))
    /\ UNCHANGED <<now, started, hostOffset, startupFired, probe, runVars>>

\* run_pending() calls the next job that was due when this poll started
RunNextPending ==
    /\ pc = "pending"
    /\ Fire(Head(queue), now, queue)
    /\ UNCHANGED <<now, started, hostOffset, startupFired, probe, runVars>>

\* run_pending() has returned: time.sleep(60)
LoopSleep ==
    /\ pc = "sleep"
    /\ now + PollSleep - started <= MaxElapsed
    /\ now' = now + PollSleep
    /\ pc' = "loop"
    /\ UNCHANGED <<started, hostOffset, nextDaily, nextHourly, queue, trig,
                   loopEntered, startupFired, probe, active, runVars>>

-----------------------------------------------------------------------------
(* Text: URLs are sequences of characters, so that `in` and lower() are computed *)

UpperLetters ==
    <<"A", "B", "C", "D", "E", "F", "G", "H", "I", "J", "K", "L", "M",
      "N", "O", "P", "Q", "R", "S", "T", "U", "V", "W", "X", "Y", "Z">>
LowerLetters ==
    <<"a", "b", "c", "d", "e", "f", "g", "h", "i", "j", "k", "l", "m",
      "n", "o", "p", "q", "r", "s", "t", "u", "v", "w", "x", "y", "z">>

\* str.lower()
LowerChar(c) ==
    IF \E i \in 1 .. Len(UpperLetters) : UpperLetters[i] = c
    THEN LowerLetters[CHOOSE i \in 1 .. Len(UpperLetters) : UpperLetters[i] = c]
    ELSE c

Lower(s) == [i \in 1 .. Len(s) |-> LowerChar(s[i])]

\* Python `needle in hay` on strings
Contains(needle, hay) ==
    \E i \in 1 .. (Len(hay) - Len(needle) + 1) :
        SubSeq(hay, i, i + Len(needle) - 1) = needle

\* config.NAUKRI_PROFILE_URL: the profile page
UrlProfile ==
    <<"h", "t", "t", "p", "s", ":", "/", "/", "w", "w", "w", ".", "n", "a", "u", "k",
      "r", "i", ".", "c", "o", "m", "/", "m", "n", "j", "u", "s", "e", "r", "/", "p",
      "r", "o", "f", "i", "l", "e">>

\* the alternate URL of load_cookies: the logged-in home page
UrlHomepage ==
    <<"h", "t", "t", "p", "s", ":", "/", "/", "w", "w", "w", ".", "n", "a", "u", "k",
      "r", "i", ".", "c", "o", "m", "/", "m", "n", "j", "u", "s", "e", "r", "/", "h",
      "o", "m", "e", "p", "a", "g", "e">>

\* config.NAUKRI_LOGIN_URL: the login page
UrlLogin ==
    <<"h", "t", "t", "p", "s", ":", "/", "/", "w", "w", "w", ".", "n", "a", "u", "k",
      "r", "i", ".", "c", "o", "m", "/", "n", "l", "o", "g", "i", "n", "/", "l", "o",
      "g", "i", "n">>

\* the login page as reached by a redirect from the profile page, the page
\* asked for kept in the query string
UrlLoginReturn ==
    <<"h", "t", "t", "p", "s", ":", "/", "/", "w", "w", "w", ".", "n", "a", "u", "k",
      "r", "i", ".", "c", "o", "m", "/", "n", "l", "o", "g", "i", "n", "/", "l", "o",
      "g", "i", "n", "?", "U", "R", "L", "=", "%", "2", "F", "m", "n", "j", "u", "s",
      "e", "r", "%", "2", "F", "p", "r", "o", "f", "i", "l", "e">>

\* the login page, spelt with capitals
UrlLoginUpper ==
    <<"h", "t", "t", "p", "s", ":", "/", "/", "w", "w", "w", ".", "n", "a", "u", "k",
      "r", "i", ".", "c", "o", "m", "/", "n", "L", "o", "g", "i", "n", "/", "L", "o",
      "g", "i", "n">>

\* config.NAUKRI_HOME_URL with its trailing slash: the public landing page
UrlRoot ==
    <<"h", "t", "t", "p", "s", ":", "/", "/", "w", "w", "w", ".", "n", "a", "u", "k",
      "r", "i", ".", "c", "o", "m", "/">>

WordProfile == <<"p", "r", "o", "f", "i", "l", "e">>

WordLogin == <<"l", "o", "g", "i", "n">>

WordNlogin == <<"n", "l", "o", "g", "i", "n">>

WordHomepage == <<"h", "o", "m", "e", "p", "a", "g", "e">>

WordMnjuser == <<"m", "n", "j", "u", "s", "e", "r">>

\* the literal 'naukri.com' of the domain test in load_cookies
WordNaukriCom == <<"n", "a", "u", "k", "r", "i", ".", "c", "o", "m">>

\* host of config.NAUKRI_HOME_URL, the page the browser is on while cookies are added
HomeHost == <<"w", "w", "w", ".", "n", "a", "u", "k", "r", "i", ".", "c", "o", "m">>

\* the default domain of cookie_clean
DomainDotNaukri == <<".", "n", "a", "u", "k", "r", "i", ".", "c", "o", "m">>

\* a domain of another site
DomainExample == <<".", "e", "x", "a", "m", "p", "l", "e", ".", "o", "r", "g">>

\* a domain of another site whose name ends in 'naukri.com'
DomainLookalike == <<"n", "o", "t", "n", "a", "u", "k", "r", "i", ".", "c", "o", "m">>

\* str.endswith
EndsWith(suffix, str) ==
    /\ Len(suffix) <= Len(str)
    /\ SubSeq(str, Len(str) - Len(suffix) + 1, Len(str)) = suffix


\* the pages the remote site may leave the browser on
Pages ==
    [profile |-> UrlProfile, homepage |-> UrlHomepage, login |-> UrlLogin,
     login_return |-> UrlLoginReturn, login_upper |-> UrlLoginUpper, root |-> UrlRoot]
PageNames == DOMAIN Pages

-----------------------------------------------------------------------------
(* config.py *)

\* nothing observed of the remote site yet
NoObs ==
    [cookieUrl |-> "none", loginUrl |-> "none", fileInput |-> "none",
     injected |-> "none", loginError |-> "none", otpShown |-> FALSE,
     nav |-> [home |-> 0, profile |-> 0, alt |-> 0],
     controls |-> [email |-> -1, wait |-> FALSE, password |-> -1, button |-> -1],
     fileStages |-> <<>>, sendRaised |-> FALSE]

\* Python None, as dict.get returns it for a key that is absent
None == "<None>"

\* the entries a NAUKRI_COOKIES list is made of, by identifier: JSON objects with
\* the keys they carry, and one entry that is no object (a JSON string)
\*   c1  name and value only          c2  the cookie of c1 with another value
\*   c3  another cookie of the host   nv  no value key
\*   en  empty name                   xd  domain of another site
\*   ld  look-alike domain            no  not an object
CookieEntry ==
    [c1 |-> [object |-> TRUE, keys |-> {"name", "value"}, name |-> "sid", value |-> "v1",
             domain |-> <<>>, path |-> ""],
     c2 |-> [object |-> TRUE, keys |-> {"name", "value", "domain", "path"}, name |-> "sid",
             value |-> "v2", domain |-> DomainDotNaukri, path |-> "/"],
     c3 |-> [object |-> TRUE, keys |-> {"name", "value", "domain", "path"}, name |-> "tok",
             value |-> "v1", domain |-> HomeHost, path |-> "/"],
     nv |-> [object |-> TRUE, keys |-> {"name", "domain"}, name |-> "sid", value |-> "",
             domain |-> DomainDotNaukri, path |-> ""],
     en |-> [object |-> TRUE, keys |-> {"name", "value"}, name |-> "", value |-> "v1",
             domain |-> <<>>, path |-> ""],
     xd |-> [object |-> TRUE, keys |-> {"name", "value", "domain"}, name |-> "ads",
             value |-> "v1", domain |-> DomainExample, path |-> ""],
     ld |-> [object |-> TRUE, keys |-> {"name", "value", "domain"}, name |-> "trk",
             value |-> "v1", domain |-> DomainLookalike, path |-> ""],
     no |-> [object |-> FALSE, keys |-> {}, name |-> "", value |-> "", domain |-> <<>>,
             path |-> ""]]
CookieIds == DOMAIN CookieEntry

\* configuration: NAUKRI_COOKIES parsed by get_cookies (None, or a list),
\* NAUKRI_EMAIL / NAUKRI_PASSWORD non-empty, EMAIL_ADDRESS / EMAIL_APP_PASSWORD
\* non-empty (the mailbox), the resume file present
CookieLists == {<<>>, <<"c1">>, <<"c1", "c2">>, <<"no", "c1">>}
Configs ==
    [cookiesNone : BOOLEAN, cookies : CookieLists, email : BOOLEAN,
     password : BOOLEAN, mailbox : BOOLEAN, resumeExists : BOOLEAN]

IdleRun ==
    /\ driver = "none"
    /\ loggedIn = FALSE
    /\ success = FALSE
    /\ events = <<>>
    /\ obs = NoObs
    /\ result = "none"
    /\ exitCode = -1
    /\ jar = {}

\* get_cookies(): None when NAUKRI_COOKIES is unset or is no JSON list, else the list
get_cookies(c) == [none |-> c.cookiesNone, list |-> IF c.cookiesNone THEN <<>> ELSE c.cookies]

\* use_cookie_auth(): cookies is not None and len(cookies) > 0
use_cookie_auth(c) == ~get_cookies(c).none /\ Len(get_cookies(c).list) > 0

\* NAUKRI_EMAIL and NAUKRI_PASSWORD
HasCredentials(c) == c.email /\ c.password

\* validate_config(): the list of errors, as a set
validate_config_ignores_resume(c) ==
    LET has_cookies == ~get_cookies(c).none /\ Len(get_cookies(c).list) > 0
        has_credentials == c.email /\ c.password
    IN  IF ~has_cookies /\ ~has_credentials THEN {"identity"} ELSE {}

validate_config(c) ==
    LET has_cookies == ~get_cookies(c).none /\ Len(get_cookies(c).list) > 0
        has_credentials == c.email /\ c.password
    IN  (IF ~has_cookies /\ ~has_credentials THEN {"identity"} ELSE {})
        \cup (IF ~c.resumeExists THEN {"resume"} ELSE {})

-----------------------------------------------------------------------------
(* naukri_updater/main.py: the steps of NaukriUpdater.run as functions of what
   the browser and the remote site answer *)

\* dict.get(key, default) on a cookie entry that is an object
Get(cookie, key, default) == IF key \in cookie.keys THEN cookie[key] ELSE default

\* cookie_clean: the four fields kept of an entry, with the defaults for domain
\* and path
cookie_clean(cookie) ==
    [name |-> Get(cookie, "name", None), value |-> Get(cookie, "value", None),
     domain |-> Get(cookie, "domain", DomainDotNaukri), path |-> Get(cookie, "path", "/")]

\* truth value of a str or None
Truthy(x) == x # None /\ x # ""

\* `if cookie_clean['name'] and cookie_clean['value']` and
\* `if 'naukri.com' in cookie_clean.get('domain', '')`
PassesFilter(cc) ==
    Truthy(cc.name) /\ Truthy(cc.value) /\ Contains(WordNaukriCom, cc.domain)

\* driver.add_cookie raises unless the cookie's domain matches the host of the
\* page the browser is on (the home page)
BrowserAccepts(cc) ==
    LET d == IF Len(cc.domain) > 0 /\ Head(cc.domain) = "." THEN Tail(cc.domain)
             ELSE cc.domain
    IN  d = HomeHost \/ EndsWith(<<".">> \o d, HomeHost)

\* driver.add_cookie on an accepted cookie: it replaces the cookie of the same
\* name, domain and path
SameCookie(a, b) == a.name = b.name /\ a.domain = b.domain /\ a.path = b.path
add_cookie(j, cc) == {k \in j : ~SameCookie(k, cc)} \cup {cc}

\* state of the `for cookie in cookies` loop: the jar, cookies_added, and whether
\* an exception has left the loop
NoInjection == [jar |-> {}, added |-> 0, aborted |-> FALSE]

\* one iteration of the loop.  An entry that is no object makes cookie.get raise
\* inside the try and again inside the handler (the f-string of logger.debug),
\* which leaves the loop for the outer `except Exception` of load_cookies.
InjectOne_rejects_repeat(st, cookie) ==
    IF ~cookie.object THEN [st EXCEPT !.aborted = TRUE]
    ELSE LET cc == cookie_clean(cookie)
         IN  IF PassesFilter(cc) /\ BrowserAccepts(cc)
             THEN IF cc \in st.jar THEN [st EXCEPT !.aborted = TRUE]
                  ELSE [st EXCEPT !.jar = add_cookie(st.jar, cc), !.added = st.added + 1]
             ELSE st

InjectOne_single(st, cookie) ==
    IF ~cookie.object THEN [st EXCEPT !.aborted = TRUE]
    ELSE LET cc == cookie_clean(cookie)
         IN  IF PassesFilter(cc) /\ BrowserAccepts(cc) /\ st.added = 0
             THEN [st EXCEPT !.jar = add_cookie(st.jar, cc), !.added = st.added + 1]
             ELSE st

InjectOne_stops_at_skip(st, cookie) ==
    IF ~cookie.object THEN [st EXCEPT !.aborted = TRUE]
    ELSE LET cc == cookie_clean(cookie)
         IN  IF PassesFilter(cc) /\ BrowserAccepts(cc)
             THEN [st EXCEPT !.jar = add_cookie(st.jar, cc), !.added = st.added + 1]
             ELSE [st EXCEPT !.aborted = TRUE]

InjectOne(st, cookie) ==
    IF ~cookie.object THEN [st EXCEPT !.aborted = TRUE]
    ELSE LET cc == cookie_clean(cookie)
         IN  IF PassesFilter(cc) /\ BrowserAccepts(cc)
             THEN [st EXCEPT !.jar = add_cookie(st.jar, cc), !.added = st.added + 1]
             ELSE st

\* the whole loop over a list of entry identifiers
RECURSIVE InjectFrom(_, _)
InjectFrom(st, ids) ==
    IF ids = <<>> \/ st.aborted THEN st
    ELSE InjectFrom(InjectOne(st, CookieEntry[Head(ids)]), Tail(ids))
InjectAll(ids) == InjectFrom(NoInjection, ids)

\* load_cookies, the test on current_url after the navigation to the profile;
\* marker: the probe for a logged-in element finds one
ClassifyCookieAuth(url, marker) ==
    LET u == Lower(url)
    IN  IF Contains(WordProfile, u) /\ ~Contains(WordLogin, u) THEN TRUE
        ELSE IF Contains(WordHomepage, u) \/ Contains(WordMnjuser, u) THEN TRUE
        ELSE IF Contains(WordLogin, u) THEN FALSE
        ELSE marker

\* load_cookies: driver.get(NAUKRI_HOME_URL) in a try, and once more in its handler
home_attempts == 2

\* load_cookies: max_retries of the navigation to the profile page
max_retries_four == 3 + 1

max_retries == 3

\* what the site answers to load_cookies: how many navigations to the home page
\* fail in a row, refresh raising, how many navigations to the profile page fail
\* in a row, the alternate URL raising, and the page and logged-in marker found
\* at the end
CookieEnvs ==
    [homeFails : 0 .. 2, refreshRaises : BOOLEAN, profileFails : 0 .. 3,
     altRaises : BOOLEAN, page : PageNames, marker : BOOLEAN]

\* load_cookies reaches the loop over the cookies (the home page was loaded)
CookieAuthInjects(c, env) ==
    /\ ~get_cookies(c).none
    /\ Len(get_cookies(c).list) > 0
    /\ env.homeFails < home_attempts

\* load_cookies reaches the navigation to the profile page
CookieAuthNavigates(c, env) ==
    /\ CookieAuthInjects(c, env)
    /\ ~InjectAll(get_cookies(c).list).aborted
    /\ ~env.refreshRaises

\* load_cookies reaches the test on current_url
CookieAuthClassifies(c, env) ==
    /\ CookieAuthNavigates(c, env)
    /\ ~(env.profileFails >= max_retries /\ env.altRaises)

\* the calls of driver.get that load_cookies makes: on the home page, on the
\* profile page (`for attempt in range(max_retries)` until one succeeds) and on
\* the alternate URL (in the handler of the last attempt)
NavigationAttempts(c, env) ==
    [home |-> IF get_cookies(c).none \/ Len(get_cookies(c).list) = 0 THEN 0
              ELSE IF env.homeFails + 1 < home_attempts THEN env.homeFails + 1
              ELSE home_attempts,
     profile |-> IF ~CookieAuthNavigates(c, env) THEN 0
                 ELSE IF env.profileFails + 1 < max_retries THEN env.profileFails + 1
                 ELSE max_retries,
     alt |-> IF CookieAuthNavigates(c, env) /\ env.profileFails >= max_retries THEN 1
             ELSE 0]

\* load_cookies() -> bool; every exception inside is caught and gives False
load_cookies(c, env) ==
    IF CookieAuthClassifies(c, env) THEN ClassifyCookieAuth(Pages[env.page], env.marker)
    ELSE FALSE

\* what the locators of one find_element_with_fallback call do, in list order
LocatorOutcomes == {"element", "NoSuchElementException", "Exception"}

\* nothing looked up yet
NoLookup == [outcomes |-> <<>>, queried |-> <<>>, result |-> -1]

\* find_element_with_fallback(selectors, description): the locators queried, in
\* order, and the index of the locator whose element is returned (0 for None)
RECURSIVE FallbackFrom(_, _)
FallbackFrom(outcomes, i) ==
    IF i > Len(outcomes) THEN [queried |-> <<>>, result |-> 0]
    ELSE IF outcomes[i] = "element" THEN [queried |-> <<i>>, result |-> i]
    ELSE LET rest == FallbackFrom(outcomes, i + 1)
         IN  [queried |-> <<i>> \o rest.queried, result |-> rest.result]

find_element_with_fallback_keeps_last(outcomes) ==
    LET found == {i \in 1 .. Len(outcomes) : outcomes[i] = "element"}
    IN  [queried |-> [i \in 1 .. Len(outcomes) |-> i],
         result |-> IF found = {} THEN 0
                    ELSE CHOOSE i \in found : \A j \in found : j <= i]

find_element_with_fallback(outcomes) == FallbackFrom(outcomes, 1)

\* the locator lists of login, by what the page makes of them: an element
\* only at a later locator, or at none
ControlLookups ==
    {<<"NoSuchElementException", "Exception", "element">>,
     <<"NoSuchElementException", "Exception">>}

\* `if not element` after a lookup
Located(outcomes) == find_element_with_fallback(outcomes).result # 0

\* the email field: by its locator list, or else by the generic wait
EmailLocated(env) == Located(env.email) \/ env.emailWait

\* the pages of the login form
LoginPageNames == {"login", "login_return", "login_upper"}

\* what the site answers to login: the navigation raising, the three controls
\* being found, the page after the click, an error-message element being
\* displayed there, that element having text, and the site asking for a
\* one-time code (which it does on a page of the login form)
LoginEnvs ==
    {env \in [getRaises : BOOLEAN, email : ControlLookups, emailWait : BOOLEAN,
              password : ControlLookups, button : ControlLookups, page : PageNames,
              errorVisible : BOOLEAN, errorText : BOOLEAN, otp : BOOLEAN] :
        /\ env.emailWait => ~Located(env.email)
        /\ env.otp => env.page \in LoginPageNames
        /\ env.errorText => env.errorVisible}

\* login reaches the test on current_url (the button was clicked): none of
\* `if not email_input`, `if not password_input`, `if not login_button` returned
LoginSubmits_without_button(env) ==
    ~env.getRaises /\ EmailLocated(env) /\ Located(env.password)

LoginSubmits(env) ==
    ~env.getRaises /\ EmailLocated(env) /\ Located(env.password) /\ Located(env.button)

\* what login got from its three lookups: the locator that resolved, 0 for None,
\* -1 for a lookup it did not get to
LoginControls(env) ==
    LET e == find_element_with_fallback(env.email).result
        p == find_element_with_fallback(env.password).result
        b == find_element_with_fallback(env.button).result
    IN  IF env.getRaises
        THEN [email |-> -1, wait |-> FALSE, password |-> -1, button |-> -1]
        ELSE IF ~EmailLocated(env)
        THEN [email |-> e, wait |-> FALSE, password |-> -1, button |-> -1]
        ELSE IF ~Located(env.password)
        THEN [email |-> e, wait |-> env.emailWait, password |-> p, button |-> -1]
        ELSE [email |-> e, wait |-> env.emailWait, password |-> p, button |-> b]

\* login() -> bool.  Nothing in it looks for a one-time-code challenge or calls
\* email_otp: env.otp is not read.
login_ignores_errors(env) == LoginSubmits(env)

login(env) ==
    IF ~LoginSubmits(env) THEN FALSE
    ELSE LET u == Lower(Pages[env.page])
         IN  IF ~Contains(WordLogin, u) /\ ~Contains(WordNlogin, u) THEN TRUE
             ELSE IF env.errorVisible /\ env.errorText THEN FALSE
             ELSE TRUE

\* navigate_to_profile() -> bool: True on either branch, False when get raises
navigate_to_profile(raises) == ~raises

\* where update_resume finds the file input: by the selector list, by the list
\* again after clicking the resume section, by document.querySelector, or nowhere
FileInputStages == {"direct", "after_click", "script", "nowhere"}

\* update_resume, the places it looks for the file input, in order, until one
\* yields it
StagesTried(stage) ==
    IF stage = "direct" THEN <<"direct">>
    ELSE IF stage = "after_click" THEN <<"direct", "after_click">>
    ELSE <<"direct", "after_click", "script">>

\* update_resume() -> bool; sendRaises: send_keys on the control raises
update_resume_ignores_send_failure(stage, sendRaises) == stage # "nowhere"

update_resume(stage, sendRaises) ==
    IF stage = "nowhere" THEN FALSE
    ELSE IF sendRaises THEN FALSE
    ELSE TRUE

\* ---- email_otp.py ----

\* wait_for_otp(..., poll_interval: int = 5)
poll_interval == 5

\* get_latest_otp(..., max_age_minutes: int = 5)
max_age_minutes == 5

\* `message_numbers[0].split()[-5:]`
last_messages == 5

\* the text of the mails of the model
Body ==
    [id \in {"otp_is", "code_after_ref", "otp_colon", "verification", "bare", "phone", "plain"} |->
    CASE id = "otp_is" ->   \* Your OTP is 123456
          <<"Y", "o", "u", "r", " ", "O", "T", "P", " ", "i", "s", " ",
          "1", "2", "3", "4", "5", "6">>
      [] id = "code_after_ref" ->   \* ref 111111 Code: 222222
          <<"r", "e", "f", " ", "1", "1", "1", "1", "1", "1", " ", "C",
          "o", "d", "e", ":", " ", "2", "2", "2", "2", "2", "2">>
      [] id = "otp_colon" ->   \* OTP: 654321
          <<"O", "T", "P", ":", " ", "6", "5", "4", "3", "2", "1">>
      [] id = "verification" ->   \* Verification code:333333
          <<"V", "e", "r", "i", "f", "i", "c", "a", "t", "i", "o", "n",
          " ", "c", "o", "d", "e", ":", "3", "3", "3", "3", "3", "3">>
      [] id = "bare" ->   \* use 444444 now
          <<"u", "s", "e", " ", "4", "4", "4", "4", "4", "4", " ", "n",
          "o", "w">>
      [] id = "phone" ->   \* call 9876543210
          <<"c", "a", "l", "l", " ", "9", "8", "7", "6", "5", "4", "3",
          "2", "1", "0">>
      [] id = "plain" ->   \* no otp yet
          <<"n", "o", " ", "o", "t", "p", " ", "y", "e", "t">>]

Digit == {"0", "1", "2", "3", "4", "5", "6", "7", "8", "9"}

\* [:\s] on the characters of the bodies; \s is the blank, \w every other
\* character
Sep == {":", " "}

\* the four keyword patterns of _extract_otp, each followed by (\d{6}): a
\* sequence of literals (word) and of non-empty runs of a class (set)
KeywordPatterns ==
    LET Lit(word) == [kind |-> "lit", word |-> word, set |-> {}]
        Some(set) == [kind |-> "some", word |-> <<>>, set |-> set]
    IN  << <<Lit(<<"o", "t", "p">>), Some(Sep)>>,
           <<Lit(<<"o", "t", "p">>), Some({" "}), Lit(<<"i", "s">>), Some({" "})>>,
           <<Lit(<<"v", "e", "r", "i", "f", "i", "c", "a", "t", "i", "o", "n">>), Some({" "}),
             Lit(<<"c", "o", "d", "e">>), Some(Sep)>>,
           <<Lit(<<"c", "o", "d", "e">>), Some(Sep)>> >>

\* (\d{6}) at position i
Digits6At(text, i) ==
    /\ i >= 1 /\ i + 5 <= Len(text)
    /\ \A k \in i .. (i + 5) : text[k] \in Digit

\* a literal of the pattern at position i, under re.IGNORECASE
LitAt(text, i, word) ==
    /\ i + Len(word) - 1 <= Len(text)
    /\ \A k \in 1 .. Len(word) : LowerChar(text[i + k - 1]) = word[k]

\* a match of pat[k..] followed by (\d{6}) at position i: the position of the
\* group, 0 without a match; a run of a class is taken to its end
RECURSIVE MatchFrom(_, _, _, _)
MatchFrom(text, i, pat, k) ==
    IF k > Len(pat) THEN (IF Digits6At(text, i) THEN i ELSE 0)
    ELSE IF pat[k].kind = "lit"
         THEN IF LitAt(text, i, pat[k].word)
              THEN MatchFrom(text, i + Len(pat[k].word), pat, k + 1)
              ELSE 0
         ELSE LET stops == {j \in i .. (Len(text) + 1) :
                                j = Len(text) + 1 \/ text[j] \notin pat[k].set}
                  j == CHOOSE e \in stops : \A l \in stops : e <= l
              IN  IF j = i THEN 0 ELSE MatchFrom(text, j, pat, k + 1)

\* re.search: the group of the leftmost match of pattern n, 0 without one; the
\* pattern after the keyword patterns is \b(\d{6})\b
Search(text, n) ==
    LET bare(i) == /\ Digits6At(text, i)
                   /\ i = 1 \/ text[i - 1] \in Sep
                   /\ i + 5 = Len(text) \/ text[i + 6] \in Sep
        at(i) == IF n <= Len(KeywordPatterns) THEN MatchFrom(text, i, KeywordPatterns[n], 1)
                 ELSE (IF bare(i) THEN i ELSE 0)
        hits == {i \in 1 .. Len(text) : at(i) # 0}
    IN  IF hits = {} THEN 0 ELSE at(CHOOSE i \in hits : \A j \in hits : i <= j)

\* None, and the value of a search that found nothing
NoCode == <<>>

\* _extract_otp(text): the group of the first pattern that matches
extract_otp(text) ==
    LET found == {n \in 1 .. (Len(KeywordPatterns) + 1) : Search(text, n) # 0}
    IN  IF found = {} THEN NoCode
        ELSE LET n == CHOOSE m \in found : \A l \in found : m <= l
                 g == Search(text, n)
             IN  SubSeq(text, g, g + 5)

\* _extract_otp(self._get_email_body(msg)) for the mails of the model
ExtractedFrom == [id \in DOMAIN Body |-> extract_otp(Body[id])]

\* get_latest_otp(), which meets outcome "ok", "connect_failed",
\* "login_failed" or "imap_error": the code and the position in the mailbox of the mail it
\* came from; the last five mails of the sender are looked at, the newest
\* first, whatever their date
get_latest_otp(mailbox, outcome) ==
    LET ids == {i \in 1 .. Len(mailbox) : mailbox[i].naukri}
        email_ids == {i \in ids : Cardinality({j \in ids : j > i}) < last_messages}
        hits == {i \in email_ids : ExtractedFrom[mailbox[i].body] # NoCode}
    IN  IF outcome # "ok" \/ hits = {} THEN [code |-> NoCode, source |-> 0]
        ELSE LET i == CHOOSE h \in hits : \A j \in hits : h >= j
             IN  [code |-> ExtractedFrom[mailbox[i].body], source |-> i]

\* `while time.time() - start_time < timeout_seconds`
LoopContinues_at_timeout(elapsed, timeout_seconds) == elapsed <= timeout_seconds

LoopContinues(elapsed, timeout_seconds) == elapsed < timeout_seconds

\* EmailOTPReader.disconnect(): logout is called on a reader that holds a
\* connection, and whatever it raises is dropped; how: "ok", or logout raises
\* and the socket is closed ("raises_closed") or left as it is ("raises_open")
disconnect_lets_logout_raise(mail, how) ==
    [called |-> TRUE, logout |-> mail # "none", failed |-> mail # "none" /\ how # "ok",
     raised |-> mail # "none" /\ how # "ok", open |-> mail # "none" /\ how = "raises_open"]

disconnect(mail, how) ==
    [called |-> TRUE, logout |-> mail # "none", failed |-> mail # "none" /\ how # "ok",
     raised |-> FALSE, open |-> mail # "none" /\ how = "raises_open"]

\* no wait for a one-time code yet; mail is self.mail of the reader: "none",
\* "unauth" (connected, login failed) or "auth"; close is what disconnect did
NoOtp ==
    [phase |-> "idle", mailbox |-> <<>>, now |-> 0, start |-> 0, timeout |-> 0,
     log |-> <<>>, code |-> NoCode, source |-> 0, used |-> {}, calls |-> 0,
     mail |-> "none", exit |-> "none",
     close |-> [called |-> FALSE, logout |-> FALSE, failed |-> FALSE, raised |-> FALSE,
                open |-> FALSE]]

\* no headline looked at yet
NoHeadline == [original |-> <<>>, current |-> <<>>, toggles |-> 0]

\* update_headline, the new text: current_headline[:-1] when it ends with ".",
\* current_headline + "." otherwise
toggle_strips_periods(h) ==
    IF Len(h) > 0 /\ h[Len(h)] = "."
    THEN LET kept == {n \in 0 .. Len(h) : \A i \in (n + 1) .. Len(h) : h[i] = "."}
         IN  SubSeq(h, 1, CHOOSE n \in kept : \A m \in kept : n <= m)
    ELSE Append(h, ".")

toggle(h) ==
    IF Len(h) > 0 /\ h[Len(h)] = "." THEN SubSeq(h, 1, Len(h) - 1)
    ELSE Append(h, ".")

\* `if not logged_in:` guarding the password login in run
NeedsPasswordLogin_always(li) == TRUE

NeedsPasswordLogin(li) == ~li

\* `if not self.login(): return False`
LoginFailureAborts_never(ok) == FALSE

LoginFailureAborts(ok) == ~ok

-----------------------------------------------------------------------------
(* naukri_updater/main.py: NaukriUpdater.run, step by step, and the one-shot main *)

\* keyword arguments of the call `updater.run()` in main
OneShotRunKwargs == {}

\* what driver.quit() does: it ends the session; or it raises, and the session is
\* gone all the same, or it is still there
QuitOutcomes == {"ok", "raised_gone", "raised_live"}

\* a browser session is live
SessionLive(d) == d \in {"live", "quit_raised_live"}

\* cleanup(): quit the driver if there is one; an exception of quit is logged
\* and swallowed
cleanup_skipped(d, how) == d

cleanup(d, how) ==
    IF d # "live" THEN d
    ELSE IF how = "ok" THEN "quit"
    ELSE IF how = "raised_gone" THEN "quit_raised_gone"
    ELSE "quit_raised_live"

\* run returns `value` from inside or after the try statement: the finally
\* clause runs cleanup() first; d is the driver as the try block left it
Finish(d, value) ==
    /\ \E how \in QuitOutcomes : driver' = cleanup(d, how)
    /\ result' = IF value THEN "true" ELSE "false"
    /\ rpc' = "returned"

\* main(): updater = NaukriUpdater(); success = updater.run()
OneShotMain ==
    /\ rpc = "main"
    /\ RunCall(OneShotRunKwargs) = "entered"
    /\ rpc' = "validate"
    /\ UNCHANGED <<schedVars, cfg, driver, loggedIn, success, events, obs, result,
                   exitCode, jar, pureVars>>

\* errors = config.validate_config(); if errors: return False (before the try)
RunValidate ==
    /\ rpc = "validate"
    /\ IF validate_config(cfg) # {}
       THEN /\ result' = "false"
            /\ rpc' = "returned"
            /\ UNCHANGED <<success, loggedIn>>
       ELSE /\ success' = FALSE
            /\ loggedIn' = FALSE
            /\ rpc' = "setup"
            /\ UNCHANGED result
    /\ events' = Append(events, "validate")
    /\ UNCHANGED <<schedVars, cfg, driver, obs, exitCode, jar, pureVars>>

\* self.setup_driver(): webdriver.Chrome may raise, and so may the calls on the
\* new driver that follow it; both land in the except clauses of run
SetupDriver ==
    /\ rpc = "setup"
    /\ \E how \in {"ok", "chrome_raises", "configure_raises"} :
         IF how = "ok"
         THEN /\ driver' = "live"
              /\ rpc' = IF use_cookie_auth(cfg) THEN "cookie" ELSE "fallback"
              /\ UNCHANGED result
         ELSE Finish(IF how = "configure_raises" THEN "live" ELSE "none", success)
    /\ events' = Append(events, "setup")
    /\ UNCHANGED <<schedVars, cfg, loggedIn, success, obs, exitCode, jar, pureVars>>

\* if config.use_cookie_auth(): logged_in = self.load_cookies()
CookieAuth ==
    /\ rpc = "cookie"
    /\ \E env \in CookieEnvs :
         LET ok == load_cookies(cfg, env)
         IN  /\ loggedIn' = ok
             /\ events' = Append(events, IF ok THEN "cookie_ok" ELSE "cookie_fail")
             /\ obs' = [obs EXCEPT
                            !.cookieUrl = IF CookieAuthClassifies(cfg, env) THEN env.page
                                          ELSE "none",
                            !.nav = NavigationAttempts(cfg, env),
                            !.injected = IF ~CookieAuthInjects(cfg, env) THEN "none"
                                         ELSE IF InjectAll(cfg.cookies).aborted THEN "aborted"
                                         ELSE "done"]
             /\ jar' = IF CookieAuthInjects(cfg, env) THEN InjectAll(cfg.cookies).jar
                       ELSE jar
             /\ rpc' = IF NeedsPasswordLogin(ok) THEN "fallback" ELSE "navigate"
    /\ UNCHANGED <<schedVars, cfg, driver, success, result, exitCode, pureVars>>

\* if not logged_in, with NAUKRI_EMAIL and NAUKRI_PASSWORD set: self.login()
PasswordLogin ==
    /\ rpc = "fallback"
    /\ HasCredentials(cfg)
    /\ \E env \in LoginEnvs :
         LET ok == login(env)
         IN  /\ events' = events \o <<"login_nav">>
                           \o (IF LoginSubmits(env) THEN <<"login_click">> ELSE <<>>)
                           \o <<IF ok THEN "login_ok" ELSE "login_fail">>
             /\ obs' = [obs EXCEPT
                            !.controls = LoginControls(env),
                            !.loginUrl = IF LoginSubmits(env) THEN env.page ELSE "none",
                            !.loginError = IF ~LoginSubmits(env) \/ ~env.errorVisible
                                           THEN "none"
                                           ELSE IF env.errorText THEN "displayed_text"
                                           ELSE "displayed_empty",
                            !.otpShown = LoginSubmits(env) /\ env.otp]
             /\ IF LoginFailureAborts(ok)
                THEN /\ Finish(driver, FALSE)
                     /\ UNCHANGED loggedIn
                ELSE /\ loggedIn' = TRUE
                     /\ rpc' = "navigate"
                     /\ UNCHANGED <<driver, result>>
    /\ UNCHANGED <<schedVars, cfg, success, exitCode, jar, pureVars>>

\* if not logged_in, without credentials: "No valid authentication method", return False
NoAuthMethod ==
    /\ rpc = "fallback"
    /\ ~HasCredentials(cfg)
    /\ Finish(driver, FALSE)
    /\ UNCHANGED <<schedVars, cfg, loggedIn, success, events, obs, exitCode, jar,
                   pureVars>>

\* if not self.navigate_to_profile(): return False
NavigateToProfile ==
    /\ rpc = "navigate"
    /\ events' = Append(events, "profile_nav")
    /\ \E raises \in BOOLEAN :
         IF navigate_to_profile(raises)
         THEN /\ rpc' = "resume"
              /\ UNCHANGED <<driver, result>>
         ELSE Finish(driver, FALSE)
    /\ UNCHANGED <<schedVars, cfg, loggedIn, success, obs, exitCode, jar, pureVars>>

\* if self.update_resume(): success = True; then the finally clause and
\* `return success`
UpdateResume ==
    /\ rpc = "resume"
    /\ \E stage \in FileInputStages, sendRaises \in BOOLEAN :
         /\ stage = "nowhere" => ~sendRaises
         /\ success' = update_resume(stage, sendRaises)
         /\ events' = IF stage = "nowhere" THEN events ELSE Append(events, "upload")
         /\ obs' = [obs EXCEPT !.fileInput = stage, !.fileStages = StagesTried(stage),
                                !.sendRaised = sendRaises]
         /\ Finish(driver, update_resume(stage, sendRaises))
    /\ UNCHANGED <<schedVars, cfg, loggedIn, exitCode, jar, pureVars>>

\* `0 if success else 1`
ExitStatus_inverted(ok) == IF ok THEN 1 ELSE 0

ExitStatus(ok) == IF ok THEN 0 ELSE 1

\* sys.exit(0 if success else 1)
OneShotExit ==
    /\ rpc = "returned"
    /\ exitCode' = ExitStatus(result = "true")
    /\ rpc' = "exit"
    /\ UNCHANGED <<schedVars, cfg, driver, loggedIn, success, events, obs, result, jar,
                   pureVars>>

-----------------------------------------------------------------------------
(* The scheduler process *)

\* instants at which the process is started: around both edges of the window,
\* around the daily trigger on an IST host and on a UTC host, on a weekday,
\* on Saturday and on Sunday
StartClock == {<<5, 55>>, <<6, 0>>, <<10, 0>>, <<11, 35>>, <<17, 50>>, <<18, 0>>}
StartDays == {0, 5, 6}
StartTimes == {At(d, c[1], c[2]) : d \in StartDays, c \in StartClock}

\* host clock minus IST: a host on IST, a host on UTC
HostOffsets == {0, 0 - (5 * MinutesPerHour + 30)}

NoProbe == [at |-> -1, result |-> FALSE]
Init ==
    /\ now \in StartTimes
    /\ started = now
    /\ hostOffset \in HostOffsets
    /\ pc = "main"
    /\ nextDaily = -1
    /\ nextHourly = -1
    /\ queue = <<>>
    /\ trig = NoTrigger
    /\ loopEntered = FALSE
    /\ startupFired = 0
    /\ probe = NoProbe
    /\ active = 0
    \* the scheduler itself reads no configuration; two environments are kept,
    \* cookies alone and cookies with credentials
    /\ cfg \in {c \in Configs : c.cookies = <<"c1">> /\ c.email = c.password
                                /\ ~c.mailbox /\ c.resumeExists /\ ~c.cookiesNone}
    /\ rpc = "idle"
    /\ IdleRun
    /\ lookup = NoLookup
    /\ headline = NoHeadline
    /\ otp = NoOtp

Next ==
    \/ Main
    \/ JitterSleep
    \/ Dispatch
    \/ LoopIdle
    \/ RunPending
    \/ RunNextPending
    \/ LoopSleep

Spec == Init /\ [][Next]_vars

-----------------------------------------------------------------------------
(* The one-shot process: python -m naukri_updater.main *)

InitRun ==
    /\ now = At(0, 10, 0)
    /\ started = now
    /\ hostOffset = 0
    /\ pc = "oneshot"
    /\ nextDaily = -1
    /\ nextHourly = -1
    /\ queue = <<>>
    /\ trig = NoTrigger
    /\ loopEntered = FALSE
    /\ startupFired = 0
    /\ probe = NoProbe
    /\ active = 0
    /\ cfg \in Configs
    /\ rpc = "main"
    /\ IdleRun
    /\ lookup = NoLookup
    /\ headline = NoHeadline
    /\ otp = NoOtp

NextRun ==
    \/ OneShotMain
    \/ RunValidate
    \/ SetupDriver
    \/ CookieAuth
    \/ PasswordLogin
    \/ NoAuthMethod
    \/ NavigateToProfile
    \/ UpdateResume
    \/ OneShotExit

SpecRun == InitRun /\ [][NextRun]_vars

-----------------------------------------------------------------------------
(* The window policy on its own: every minute of a week is probed *)

InitWindow ==
    /\ now \in 0 .. (MinutesPerWeek - 1)
    /\ started = now
    /\ hostOffset = 0
    /\ pc = "probe"
    /\ nextDaily = -1
    /\ nextHourly = -1
    /\ queue = <<>>
    /\ trig = NoTrigger
    /\ loopEntered = FALSE
    /\ startupFired = 0
    /\ probe = NoProbe
    /\ active = 0
    /\ cfg \in {c \in Configs : c.cookies = <<"c1">> /\ c.email /\ c.password
                                /\ ~c.mailbox /\ c.resumeExists /\ ~c.cookiesNone}
    /\ rpc = "idle"
    /\ IdleRun
    /\ lookup = NoLookup
    /\ headline = NoHeadline
    /\ otp = NoOtp

\* one call of is_within_allowed_window() with the clock reading now
ProbeWindow ==
    /\ pc = "probe"
    /\ probe' = [at |-> now, result |-> is_within_allowed_window(now)]
    /\ pc' = "probed"
    /\ UNCHANGED <<now, started, hostOffset, nextDaily, nextHourly, queue, trig,
                   loopEntered, startupFired, active, runVars>>

NextWindow == ProbeWindow

SpecWindow == InitWindow /\ [][NextWindow]_vars

-----------------------------------------------------------------------------
(* The cookie loop of load_cookies on its own: every list of up to MaxCookies
   entries is injected into a fresh session *)

MaxCookies == 3

BoundedCookieLists == UNION {[1 .. n -> CookieIds] : n \in 0 .. MaxCookies}

InitCookies ==
    /\ now = At(0, 10, 0)
    /\ started = now
    /\ hostOffset = 0
    /\ pc = "oneshot"
    /\ nextDaily = -1
    /\ nextHourly = -1
    /\ queue = <<>>
    /\ trig = NoTrigger
    /\ loopEntered = FALSE
    /\ startupFired = 0
    /\ probe = NoProbe
    /\ active = 0
    /\ \E ids \in BoundedCookieLists :
         cfg = [cookiesNone |-> FALSE, cookies |-> ids, email |-> TRUE,
                password |-> TRUE, mailbox |-> FALSE, resumeExists |-> TRUE]
    /\ rpc = "inject"
    /\ IdleRun
    /\ lookup = NoLookup
    /\ headline = NoHeadline
    /\ otp = NoOtp

\* the `for cookie in cookies` loop of load_cookies, run on get_cookies()
InjectCookies ==
    /\ rpc = "inject"
    /\ jar' = InjectAll(get_cookies(cfg).list).jar
    /\ obs' = [obs EXCEPT !.injected =
                   IF InjectAll(get_cookies(cfg).list).aborted THEN "aborted" ELSE "done"]
    /\ rpc' = "injected"
    /\ UNCHANGED <<schedVars, cfg, driver, loggedIn, success, events, result, exitCode,
                   pureVars>>

NextCookies == InjectCookies

SpecCookies == InitCookies /\ [][NextCookies]_vars

-----------------------------------------------------------------------------
(* find_element_with_fallback on its own: every list of up to MaxLocators
   locator outcomes is looked up *)

MaxLocators == 5

BoundedOutcomeLists == UNION {[1 .. n -> LocatorOutcomes] : n \in 0 .. MaxLocators}

InitLookup ==
    /\ now = At(0, 10, 0)
    /\ started = now
    /\ hostOffset = 0
    /\ pc = "oneshot"
    /\ nextDaily = -1
    /\ nextHourly = -1
    /\ queue = <<>>
    /\ trig = NoTrigger
    /\ loopEntered = FALSE
    /\ startupFired = 0
    /\ probe = NoProbe
    /\ active = 0
    /\ cfg \in {c \in Configs : c.cookies = <<"c1">> /\ c.email /\ c.password
                                /\ ~c.mailbox /\ c.resumeExists /\ ~c.cookiesNone}
    /\ rpc = "lookup"
    /\ IdleRun
    /\ \E o \in BoundedOutcomeLists : lookup = [NoLookup EXCEPT !.outcomes = o]
    /\ headline = NoHeadline
    /\ otp = NoOtp

\* one call of find_element_with_fallback on the locators of lookup.outcomes
FindElement ==
    /\ rpc = "lookup"
    /\ lookup' = [lookup EXCEPT
                     !.queried = find_element_with_fallback(lookup.outcomes).queried,
                     !.result = find_element_with_fallback(lookup.outcomes).result]
    /\ rpc' = "looked_up"
    /\ UNCHANGED <<schedVars, cfg, driver, loggedIn, success, events, obs, result,
                   exitCode, jar, headline, otp>>

NextLookup == FindElement

SpecLookup == InitLookup /\ [][NextLookup]_vars

-----------------------------------------------------------------------------
(* update_headline on its own: every headline of up to MaxHeadline characters
   is toggled up to MaxToggles times *)

MaxHeadline == 4
MaxToggles == 2

\* a letter, a blank and the period
HeadlineChars == {"a", " ", "."}

BoundedHeadlines == UNION {[1 .. n -> HeadlineChars] : n \in 0 .. MaxHeadline}

InitHeadline ==
    /\ now = At(0, 10, 0)
    /\ started = now
    /\ hostOffset = 0
    /\ pc = "oneshot"
    /\ nextDaily = -1
    /\ nextHourly = -1
    /\ queue = <<>>
    /\ trig = NoTrigger
    /\ loopEntered = FALSE
    /\ startupFired = 0
    /\ probe = NoProbe
    /\ active = 0
    /\ cfg \in {c \in Configs : c.cookies = <<"c1">> /\ c.email /\ c.password
                                /\ ~c.mailbox /\ c.resumeExists /\ ~c.cookiesNone}
    /\ rpc = "headline"
    /\ IdleRun
    /\ lookup = NoLookup
    /\ \E h \in BoundedHeadlines : headline = [original |-> h, current |-> h, toggles |-> 0]
    /\ otp = NoOtp

\* one call of update_headline(): the edit button and the textarea are waited
\* for, the value is read, toggled, typed and saved; any exception on the way
\* leaves the site's headline as it was and gives False
UpdateHeadline ==
    /\ rpc = "headline"
    /\ headline.toggles < MaxToggles
    /\ \E raises \in BOOLEAN :
         headline' = IF raises THEN headline
                     ELSE [headline EXCEPT !.current = toggle(headline.current),
                                           !.toggles = headline.toggles + 1]
    /\ UNCHANGED <<schedVars, cfg, rpc, driver, loggedIn, success, events, obs, result,
                   exitCode, jar, lookup, otp>>

NextHeadline == UpdateHeadline

SpecHeadline == InitHeadline /\ [][NextHeadline]_vars

\* ---- wait_for_otp on a mailbox ----

MaxTimeout == 11

MaxPollTime == 1

\* the mailbox at the start, oldest mail first: each mail is of the sender
\* or not, was received so many seconds after the first call (stale ones
\* longer ago than max_age_minutes), and has a body
Mailboxes ==
    LET Msg(n, r, b) == [naukri |-> n, received |-> r, body |-> b]
        Stale == 0 - 2 * max_age_minutes * 60
        Fresh == 0 - 60
    IN  {<<>>,
         <<Msg(TRUE, Stale, "otp_colon")>>,
         <<Msg(TRUE, Stale, "otp_colon"), Msg(TRUE, Fresh, "plain")>>,
         <<Msg(TRUE, Fresh, "otp_is")>>,
         <<Msg(FALSE, Fresh, "otp_is"), Msg(TRUE, Fresh, "phone")>>,
         <<Msg(TRUE, Fresh, "code_after_ref"), Msg(TRUE, Fresh, "bare")>>,
         <<Msg(TRUE, Fresh, "verification"), Msg(TRUE, Fresh, "plain"),
           Msg(TRUE, Fresh, "plain"), Msg(TRUE, Fresh, "plain"),
           Msg(TRUE, Fresh, "plain"), Msg(TRUE, Fresh, "plain")>>}

InitOtp ==
    /\ now = At(0, 10, 0)
    /\ started = now
    /\ hostOffset = 0
    /\ pc = "oneshot"
    /\ nextDaily = -1
    /\ nextHourly = -1
    /\ queue = <<>>
    /\ trig = NoTrigger
    /\ loopEntered = FALSE
    /\ startupFired = 0
    /\ probe = NoProbe
    /\ active = 0
    /\ cfg \in {c \in Configs : c.cookies = <<"c1">> /\ c.email /\ c.password
                                /\ c.mailbox /\ c.resumeExists /\ ~c.cookiesNone}
    /\ rpc = "otp"
    /\ IdleRun
    /\ lookup = NoLookup
    /\ headline = NoHeadline
    /\ \E mb \in Mailboxes : otp = [NoOtp EXCEPT !.mailbox = mb]

\* wait_for_otp is called on a new reader with a timeout of -5, 0, 1 or
\* MaxTimeout seconds: in the first run, and in the later run of the same
\* mailbox an hour after the first
OtpCall ==
    /\ rpc = "otp"
    /\ \/ otp.phase = "idle" /\ otp.calls = 0
       \/ otp.phase \in {"done", "closed"} /\ otp.calls = 1
    /\ \E t \in {0 - poll_interval, 0, 1, MaxTimeout} :
         otp' = [otp EXCEPT !.phase = "test",
                            !.now = IF otp.calls = 0 THEN 0 ELSE 60 * MinutesPerHour,
                            !.start = IF otp.calls = 0 THEN 0 ELSE 60 * MinutesPerHour,
                            !.timeout = t,
                            !.log = <<>>,
                            !.code = NoCode,
                            !.source = 0,
                            !.used = IF otp.source = 0 THEN otp.used
                                     ELSE otp.used \cup {otp.source},
                            !.calls = otp.calls + 1,
                            !.mail = NoOtp.mail,
                            !.exit = NoOtp.exit,
                            !.close = NoOtp.close]
    /\ UNCHANGED <<schedVars, cfg, rpc, driver, loggedIn, success, events, obs, result,
                   exitCode, jar, lookup, headline>>

\* the test of the while loop; past it the poll starts, at its failure
\* wait_for_otp returns None
OtpTest ==
    /\ rpc = "otp"
    /\ otp.phase = "test"
    /\ otp' = IF LoopContinues(otp.now - otp.start, otp.timeout)
              THEN [otp EXCEPT !.phase = "poll"]
              ELSE [otp EXCEPT !.phase = "done"]
    /\ UNCHANGED <<schedVars, cfg, rpc, driver, loggedIn, success, events, obs, result,
                   exitCode, jar, lookup, headline>>

\* one call of get_latest_otp, which takes d seconds; `if otp: return otp`.
\* A reader without a connection calls connect(), which leaves self.mail as
\* None when the connection fails and set when only the login fails; a reader
\* whose login failed has every later command refused
OtpPoll ==
    /\ rpc = "otp"
    /\ otp.phase = "poll"
    /\ \E d \in 0 .. MaxPollTime,
          outcome \in (IF otp.mail = "none"
                       THEN {"ok", "connect_failed", "login_failed", "imap_error"}
                       ELSE IF otp.mail = "auth" THEN {"ok", "imap_error"}
                       ELSE {"imap_error"}) :
         LET got == get_latest_otp(otp.mailbox, outcome)
             entry == [at |-> otp.now - otp.start, end |-> otp.now + d - otp.start,
                       code |-> got.code]
         IN  otp' = [otp EXCEPT !.now = otp.now + d,
                                !.mail = IF otp.mail # "none" THEN otp.mail
                                         ELSE IF outcome = "connect_failed" THEN "none"
                                         ELSE IF outcome = "login_failed" THEN "unauth"
                                         ELSE "auth",
                                !.log = Append(otp.log, entry),
                                !.code = got.code,
                                !.source = got.source,
                                !.phase = IF got.code # NoCode THEN "done" ELSE "sleep"]
    /\ UNCHANGED <<schedVars, cfg, rpc, driver, loggedIn, success, events, obs, result,
                   exitCode, jar, lookup, headline>>

\* time.sleep(poll_interval)
OtpSleep ==
    /\ rpc = "otp"
    /\ otp.phase = "sleep"
    /\ otp' = [otp EXCEPT !.now = otp.now + poll_interval, !.phase = "test"]
    /\ UNCHANGED <<schedVars, cfg, rpc, driver, loggedIn, success, events, obs, result,
                   exitCode, jar, lookup, headline>>

\* a mail of the sender comes in while wait_for_otp is under way
MailArrives ==
    /\ rpc = "otp"
    /\ otp.phase \in {"test", "poll", "sleep"}
    /\ \A i \in 1 .. Len(otp.mailbox) : otp.mailbox[i].received < 0
    /\ \E b \in {"verification", "plain"} :
         otp' = [otp EXCEPT !.mailbox = Append(otp.mailbox,
                     [naukri |-> TRUE, received |-> otp.now, body |-> b])]
    /\ UNCHANGED <<schedVars, cfg, rpc, driver, loggedIn, success, events, obs, result,
                   exitCode, jar, lookup, headline>>

\* an exception that `except Exception` does not catch (KeyboardInterrupt)
\* reaches the thread during the poll, before or after the connection was
\* made, or during the sleep: wait_for_otp is left by it
OtpInterrupt ==
    /\ rpc = "otp"
    /\ otp.phase \in {"poll", "sleep"}
    /\ \E m \in {otp.mail} \cup (IF otp.phase = "poll" /\ otp.mail = "none"
                                  THEN {"unauth", "auth"} ELSE {}) :
         otp' = [otp EXCEPT !.phase = "raised", !.mail = m]
    /\ UNCHANGED <<schedVars, cfg, rpc, driver, loggedIn, success, events, obs, result,
                   exitCode, jar, lookup, headline>>

\* get_otp_from_email: `finally: reader.disconnect()`, then the value of
\* wait_for_otp is returned or its exception goes on to the caller
OtpDisconnect ==
    /\ rpc = "otp"
    /\ otp.phase \in {"done", "raised"}
    /\ \E how \in {"ok", "raises_closed", "raises_open"} :
         otp' = [otp EXCEPT !.phase = "closed",
                            !.close = disconnect(otp.mail, how),
                            !.exit = IF otp.phase = "raised" \/ disconnect(otp.mail, how).raised
                                     THEN "raised"
                                     ELSE IF otp.code = NoCode THEN "not_found" ELSE "code"]
    /\ UNCHANGED <<schedVars, cfg, rpc, driver, loggedIn, success, events, obs, result,
                   exitCode, jar, lookup, headline>>

NextOtp == OtpCall \/ OtpTest \/ OtpPoll \/ OtpSleep \/ MailArrives

SpecOtp == InitOtp /\ [][NextOtp]_vars

\* wait_for_otp runs in one thread that is not preempted for ever: the test,
\* the poll and the sleep each come to their end
SpecOtpFair == SpecOtp /\ WF_vars(OtpTest \/ OtpPoll \/ OtpSleep)

\* get_otp_from_email, in a process that can be interrupted
NextOtpClose == NextOtp \/ OtpInterrupt \/ OtpDisconnect

SpecOtpClose == InitOtp /\ [][NextOtpClose]_vars

-----------------------------------------------------------------------------
(* Properties *)

\* the Window Policy as the specification states it: Monday..Saturday, 06:00
\* inclusive to 18:00 exclusive, written out on the minute count
InPolicy(t) ==
    LET day == (t \div (24 * 60)) % 7
        hour == (t % (24 * 60)) \div 60
    IN  day \in {0, 1, 2, 3, 4, 5} /\ 6 <= hour /\ hour < 18

InEvents(e) == \E i \in 1 .. Len(events) : events[i] = e

BackInLoop == pc \in {"loop", "sleep", "pending"}

\* C1: for every timestamp, is_within_allowed_window is true exactly when the
\* weekday is Monday..Saturday and 6 <= hour < 18; true at exactly 06:00, false
\* at exactly 18:00 on an allowed day, false at every hour of Sunday.
C1_WindowPolicy ==
    probe.at >= 0 =>
        /\ probe.result = InPolicy(probe.at)
        /\ (Weekday(probe.at) # 6 /\ Hour(probe.at) = 6 /\ Minute(probe.at) = 0
              => probe.result = TRUE)
        /\ (Hour(probe.at) = 18 /\ Minute(probe.at) = 0 => probe.result = FALSE)
        /\ (Weekday(probe.at) = 6 => probe.result = FALSE)

\* C1 witness: the policy was evaluated at exactly 18:00 on a Saturday and said no
C1_Witness == probe.at = At(5, 18, 0) /\ probe.result = FALSE

\* C2: a trigger (daily, hourly or startup) that fires while the Window Policy is
\* false returns at once: no jitter sleep, no NaukriUpdater, no run, no browser.
C2_SkippedOutsideWindow ==
    (trig.kind # "none" /\ ~InPolicy(trig.firedAt)) =>
        /\ trig.outcome = "skipped"
        /\ trig.jitter = 0
        /\ trig.recheckAt = -1
        /\ ~trig.created /\ ~trig.runCalled /\ ~trig.runEntered
        /\ driver = "none" /\ events = <<>>
        /\ BackInLoop

\* C2 witness: the hourly trigger fired on a Sunday at 11:00 and was skipped
C2_Witness ==
    /\ trig.kind = "hourly"
    /\ Weekday(trig.firedAt) = 6 /\ Hour(trig.firedAt) = 11
    /\ trig.outcome = "skipped"

\* C3: the updater is created and run is called only after a re-check, made when
\* the jitter sleep of the same trigger ended, that found the Window Policy true;
\* a trigger whose re-check finds it false is aborted.
C3_RecheckGuardsDispatch ==
    /\ (trig.created \/ trig.runCalled \/ pc = "dispatch") =>
          /\ trig.check2 = "pass"
          /\ trig.jitter >= 1
          /\ trig.recheckAt = trig.firedAt + trig.jitter
          /\ InPolicy(trig.recheckAt)
    /\ (trig.recheckAt >= 0 /\ ~InPolicy(trig.recheckAt)) =>
          /\ trig.outcome = "aborted"
          /\ ~trig.created /\ ~trig.runCalled /\ ~trig.runEntered
          /\ BackInLoop

\* C3 witness: the window was open when the trigger fired and shut when the
\* jitter sleep ended, and the trigger was aborted
C3_Witness ==
    /\ InPolicy(trig.firedAt)
    /\ trig.recheckAt >= 0 /\ ~InPolicy(trig.recheckAt)
    /\ trig.outcome = "aborted"

\* C4: a trigger that passes both window checks proceeds to Dispatching: once
\* the updater is created and the dispatch is over, the run was entered.
C4_DispatchEntersRun ==
    (trig.check2 = "pass" /\ trig.created /\ pc # "dispatch") => trig.runEntered

\* the action the claim gives each mode
ActionOfMode(mode) == IF mode = "resume" THEN "upload" ELSE "headline"

\* C5: the run mode selects the action and nothing else: a call of run with mode m
\* is a run in that mode, and the only action it performs is the one of m.
C5_ModeSelectsAction ==
    trig.runCalled =>
        /\ trig.runEntered
        /\ \A i \in 1 .. Len(events) :
              events[i] \in {"upload", "headline"} => events[i] = ActionOfMode(trig.mode)

\* C6 as claimed: the startup dispatch is un-jittered, no delay lies between
\* startup and the creation of the updater.
C6_StartupUnjittered ==
    (trig.kind = "startup" /\ trig.created) => (trig.jitter = 0 /\ now = started)

\* C6 as amended: exactly one startup trigger fires, in mode profile, at the
\* start of the process and before the polling loop is entered; it takes the
\* path of the periodic triggers: with the window open at startup it sleeps a
\* jitter of 1..15 minutes and is re-checked before the updater is created.
C6_StartupJittered ==
    /\ startupFired <= 1
    /\ (pc # "main" => startupFired = 1)
    /\ (~loopEntered => trig.kind \in {"none", "startup"})
    /\ (trig.kind = "startup" =>
          /\ trig.mode = "profile"
          /\ trig.firedAt = started
          /\ (pc \in {"jitter", "dispatch"} => ~loopEntered)
          /\ (InPolicy(started) /\ pc # "jitter" =>
                /\ trig.jitter >= 1 /\ trig.jitter <= 15
                /\ trig.recheckAt = started + trig.jitter
                /\ now >= started + 1)
          /\ (trig.created => InPolicy(started) /\ trig.check2 = "pass"))

\* C6 witness: the updater of the startup trigger was created 15 minutes after
\* the process started
C6_Witness ==
    trig.kind = "startup" /\ trig.created /\ trig.jitter = 15 /\ trig.recheckAt = started + 15

\* C7: no outcome of a trigger ends the scheduler: skipped, aborted or ended by
\* an exception raised while creating or running the updater, control is back
\* in the polling loop, and the loop is left in no reachable state.
C7_SchedulerNeverExits ==
    /\ pc \in {"main", "jitter", "dispatch", "loop", "sleep", "pending"}
    /\ (trig.outcome # "none" => BackInLoop)
    /\ (trig.raised # "none" => trig.outcome = "exception")
    /\ (loopEntered => pc # "main")

\* C7 witness: the run called by the hourly trigger raised and the scheduler is
\* in its loop again
C7_Witness ==
    trig.kind = "hourly" /\ trig.runCalled /\ trig.raised # "none" /\ pc = "sleep"

\* C8: with cookies and credentials both configured, once cookie authentication
\* has succeeded the run never navigates to the login page.
C8_CookieSuccessSkipsLogin ==
    (cfg.email /\ cfg.password /\ InEvents("cookie_ok")) => ~InEvents("login_nav")

\* C8 witness: both configured, cookie authentication succeeded, the run went on
\* to the end and returned true
C8_Witness ==
    /\ cfg.email /\ cfg.password /\ ~cfg.cookiesNone /\ cfg.cookies # <<>>
    /\ InEvents("cookie_ok")
    /\ rpc = "returned" /\ result = "true"

\* C9: cookie authentication comes before the password login; profile navigation
\* and resume upload happen only after a strategy reported success in the same
\* run; a run in which no strategy succeeded returns false.
C9_StrictStrategyOrder ==
    /\ \A i, j \in 1 .. Len(events) :
          (events[i] \in {"cookie_ok", "cookie_fail"} /\ events[j] = "login_nav") => i < j
    /\ \A i \in 1 .. Len(events) :
          events[i] \in {"profile_nav", "upload"} =>
              \E j \in 1 .. (i - 1) : events[j] \in {"cookie_ok", "login_ok"}
    /\ (rpc \in {"navigate", "resume"} => InEvents("cookie_ok") \/ InEvents("login_ok"))
    /\ (rpc \in {"returned", "exit"} /\ ~InEvents("cookie_ok") /\ ~InEvents("login_ok"))
          => result = "false" /\ ~success

\* C9 witness: cookie authentication failed, then the password login failed, and
\* the run returned false without touching the profile
C9_Witness ==
    /\ InEvents("cookie_fail") /\ InEvents("login_fail")
    /\ rpc = "returned" /\ result = "false"
    /\ ~InEvents("profile_nav")

\* C10: for every final URL that contains the login marker, load_cookies
\* returns false.
C10_LoginUrlFailsCookieAuth ==
    (obs.cookieUrl # "none" /\ Contains(WordLogin, Lower(Pages[obs.cookieUrl])))
        => ~InEvents("cookie_ok")

\* the cookie list of the configuration
CookieList == get_cookies(cfg).list

\* a CookieSet as the specification defines it: every entry is an object
AllObjects(ids) == \A i \in 1 .. Len(ids) : CookieEntry[ids[i]].object

\* the domains of the target site
SiteDomains == {DomainDotNaukri, HomeHost, WordNaukriCom}

\* a well-formed entry: a name, a value, and a domain of the target site (or none,
\* which means the site's root domain)
WellFormed(id) ==
    LET e == CookieEntry[id]
    IN  /\ e.object
        /\ "name" \in e.keys /\ e.name # ""
        /\ "value" \in e.keys /\ e.value # ""
        /\ ("domain" \in e.keys => e.domain \in SiteDomains)

\* a malformed entry of the kinds the specification lists
Malformed(id) == CookieEntry[id].object /\ ~WellFormed(id)

\* the cookie an entry stands for, and its being held by the browser
CookieOf(id) == cookie_clean(CookieEntry[id])
Held(id) == \E k \in jar : SameCookie(k, CookieOf(id))

\* two entries name the same cookie (name, domain, path) with different values
Rivals(a, b) ==
    /\ WellFormed(a) /\ WellFormed(b)
    /\ SameCookie(CookieOf(a), CookieOf(b))
    /\ CookieOf(a).value # CookieOf(b).value

\* the list with one more occurrence of x, at position k
InsertAt(ids, k, x) == SubSeq(ids, 1, k - 1) \o <<x>> \o SubSeq(ids, k, Len(ids))

\* the rearrangements of 1 .. n, and a list rearranged by one
Rearrangements(n) == {f \in [1 .. n -> 1 .. n] : \A a, b \in 1 .. n : f[a] = f[b] => a = b}
Permute(ids, f) == [i \in 1 .. Len(ids) |-> ids[f[i]]]

\* injecting the list `ids` gives what the loop gave in this state: the same
\* jar, and the same way on (to the reload, or out of load_cookies)
SameInjection(ids) ==
    /\ InjectAll(ids).jar = jar
    /\ InjectAll(ids).aborted = (obs.injected = "aborted")

LoginSubmitted == obs.loginUrl # "none"

\* the page after the click is a page of the login form, by its URL
StillOnLoginUrl ==
    LoginSubmitted /\ Contains(WordLogin, Lower(Pages[obs.loginUrl]))

\* C14 as stated: whenever the page after the click shows a visible
\* error-message element, login returns false.
C14_VisibleErrorFailsLogin ==
    (LoginSubmitted /\ obs.loginError # "none") => InEvents("login_fail")

\* C14 amended: after the click, login returns false exactly when the URL still
\* contains "login" and an error-message element is displayed with a non-empty
\* text; away from the login URL it returns true without looking for one.
C14_ErrorFailsLoginOnLoginUrl ==
    LoginSubmitted =>
        /\ InEvents("login_fail") <=> (StillOnLoginUrl /\ obs.loginError = "displayed_text")
        /\ ~StillOnLoginUrl => InEvents("login_ok")

\* C14 witness: still on the login URL with an error message displayed, login
\* returned false and the run returned false
C14_Witness ==
    /\ StillOnLoginUrl
    /\ obs.loginError = "displayed_text"
    /\ InEvents("login_fail")
    /\ rpc = "returned" /\ result = "false"

\* C15: without cookies, with credentials and without a mailbox, a one-time-code
\* challenge after the click makes the password login fail and the run performs
\* no profile action.
C15_OtpWithoutMailboxFails ==
    (/\ ~use_cookie_auth(cfg)
     /\ HasCredentials(cfg)
     /\ ~cfg.mailbox
     /\ obs.otpShown) =>
        /\ ~InEvents("login_ok")
        /\ ~InEvents("profile_nav")
        /\ ~InEvents("upload")

\* C16: with a mailbox configured, a one-time-code challenge after the click makes
\* login poll the mailbox before it classifies the attempt.
C16_OtpPollsMailbox ==
    (cfg.mailbox /\ obs.otpShown /\ (InEvents("login_ok") \/ InEvents("login_fail")))
        => InEvents("otp_poll")

\* the first locator that resolves, 0 when none does
FirstResolving(outcomes) ==
    IF \E k \in 1 .. Len(outcomes) : outcomes[k] = "element"
    THEN CHOOSE k \in 1 .. Len(outcomes) :
             /\ outcomes[k] = "element"
             /\ \A j \in 1 .. (k - 1) : outcomes[j] # "element"
    ELSE 0

\* C17: when locator k is the first that resolves, find_element_with_fallback
\* has queried exactly the locators 1 .. k, in order, and returns the element
\* of locator k; when none resolves it has queried them all and returns None.
C17_FirstResolvingLocatorWins ==
    rpc = "looked_up" =>
        LET k == FirstResolving(lookup.outcomes)
        IN  IF k # 0
            THEN /\ lookup.result = k
                 /\ lookup.queried = [i \in 1 .. k |-> i]
            ELSE /\ lookup.result = 0
                 /\ lookup.queried = [i \in 1 .. Len(lookup.outcomes) |-> i]

\* C17 witness: the first locator is not found, the second raises something
\* else, the third resolves and a later one would resolve too
C17_Witness ==
    /\ rpc = "looked_up"
    /\ Len(lookup.outcomes) >= 4
    /\ lookup.outcomes[1] = "NoSuchElementException"
    /\ lookup.outcomes[2] = "Exception"
    /\ lookup.outcomes[3] = "element"
    /\ lookup.outcomes[4] = "element"
    /\ lookup.result = 3
    /\ lookup.queried = <<1, 2, 3>>

\* run has returned to its caller
RunReturned == rpc \in {"returned", "exit"}

\* C18 as stated: after run has returned, no browser session it created is
\* live.
C18_NoLiveSessionAfterRun == RunReturned => ~SessionLive(driver)

\* C18 amended: after run has returned, quit has been called on the session it
\* created, on every exit path; the session is live afterwards only when quit
\* itself raised, which cleanup swallows.
C18_QuitCalledBeforeReturn ==
    RunReturned =>
        /\ driver \in {"none", "quit", "quit_raised_gone", "quit_raised_live"}
        /\ result \in {"true", "false"}

\* C18 witness: the session was created, a step after it failed, quit raised,
\* and run returned false all the same
C18_Witness ==
    /\ RunReturned
    /\ InEvents("setup")
    /\ driver \in {"quit_raised_gone", "quit_raised_live"}
    /\ result = "false"

\* C19: at most one job function is between its entry and its return, the
\* process is inside one exactly while it jitters or dispatches, and no browser
\* session is live outside of one.
C19_OneDispatchAtATime ==
    /\ active \in {0, 1}
    /\ pc \in {"jitter", "dispatch", "running"} <=> active = 1
    /\ SessionLive(driver) => active = 1

\* C19 witness: the daily job came due while the hourly job was jittering, and
\* was started late, after the hourly job had returned
C19_Witness ==
    /\ trig.kind = "daily"
    /\ pc = "jitter"
    /\ active = 1
    /\ nextDaily # -1 /\ trig.firedAt > nextDaily
    /\ nextHourly > trig.firedAt

\* C20: a call of run, as the scheduler makes it, lets no exception escape to
\* its caller.
C20_NoExceptionEscapesRun == trig.runCalled => trig.raised = "none"

\* C24 as stated: two toggles give back every headline.
C24_ToggleInvolution == headline.toggles = 2 => headline.current = headline.original

\* a text that ends in two or more periods
EndsInPeriods(h) == Len(h) >= 2 /\ h[Len(h)] = "." /\ h[Len(h) - 1] = "."

\* C24 amended: two toggles give back every headline that does not end in two or
\* more periods, the empty one and one ending in a single period included; a
\* headline ending in several periods loses two of them.
C24_ToggleInvolutionSinglePeriod ==
    headline.toggles = 2 =>
        IF EndsInPeriods(headline.original)
        THEN headline.current = SubSeq(headline.original, 1, Len(headline.original) - 2)
        ELSE headline.current = headline.original

\* C24 witness: a headline ending in one period, toggled twice and back to what
\* it was
C24_Witness ==
    /\ headline.toggles = 2
    /\ Len(headline.original) >= 2
    /\ headline.original[Len(headline.original)] = "."
    /\ ~EndsInPeriods(headline.original)
    /\ headline.current = headline.original

\* how often e occurs in events
Count(e) == Cardinality({i \in 1 .. Len(events) : events[i] = e})

\* C21: in the scheduler process the configuration check has been evaluated
\* exactly once by the time the first dispatch creates the updater or the
\* polling loop is entered.
C21_ConfigCheckedOnceAtStartup == (trig.created \/ loopEntered) => Count("validate") = 1

\* the configuration errors as the specification states them
ConfigError ==
    \/ ~((~cfg.cookiesNone /\ Len(cfg.cookies) > 0) \/ (cfg.email /\ cfg.password))
    \/ ~cfg.resumeExists

\* C22: on a configuration error run returns false at once, having created no
\* browser session, navigated nowhere and attempted no strategy or action.
C22_ConfigErrorFailsFast ==
    (ConfigError /\ InEvents("validate")) =>
        /\ RunReturned
        /\ result = "false"
        /\ events = <<"validate">>
        /\ driver = "none"
        /\ jar = {}
        /\ obs = NoObs

\* C22 witness: cookies and credentials are there but the resume file is not;
\* run has returned false
C22_Witness ==
    /\ ~cfg.resumeExists
    /\ use_cookie_auth(cfg) /\ HasCredentials(cfg)
    /\ rpc = "returned" /\ result = "false"
    /\ events = <<"validate">>

\* C23: the one-shot process exits with 0 exactly when the resume upload step
\* returned true (the path was sent to a control that took it), and with 1 in
\* every other case.
C23_ExitCodeFollowsUpload ==
    /\ rpc = "exit" =>
          /\ exitCode \in {0, 1}
          /\ exitCode = 0 <=> (Count("upload") = 1 /\ ~obs.sendRaised /\ success)
          /\ (ConfigError \/ ~(InEvents("cookie_ok") \/ InEvents("login_ok"))
                \/ obs.fileInput \in {"none", "nowhere"}) => exitCode = 1
    /\ rpc # "exit" => exitCode = -1

\* C23 witness: the upload went through and the process exited with 0
C23_Witness ==
    /\ rpc = "exit"
    /\ exitCode = 0
    /\ InEvents("upload")
    /\ result = "true"

\* C26: the daily job is due at 07:00 IST whatever the host's timezone.
C26_DailyAtSevenIST ==
    nextDaily # -1 => (Hour(nextDaily) = 7 /\ Minute(nextDaily) = 0)

\* C28: when the lookup of the email field (and the generic wait after it), of
\* the password field or of the login button comes back with None, login
\* returns false without a click on the button, and the run returns false; a
\* click happens only with all three controls located.
C28_MissingControlFailsLogin ==
    InEvents("login_nav") =>
        LET c == obs.controls
        IN  /\ ((c.email = 0 /\ ~c.wait) \/ c.password = 0 \/ c.button = 0) =>
                  /\ InEvents("login_fail")
                  /\ ~InEvents("login_click") /\ ~InEvents("login_ok")
                  /\ RunReturned /\ result = "false"
            /\ InEvents("login_click") =>
                  (c.email > 0 \/ c.wait) /\ c.password > 0 /\ c.button > 0

\* C28 witness: the email field came from the generic wait, the password field
\* from a later locator, the button from none: login returned false
C28_Witness ==
    /\ obs.controls.email = 0 /\ obs.controls.wait
    /\ obs.controls.password = 3
    /\ obs.controls.button = 0
    /\ InEvents("login_fail")
    /\ rpc = "returned" /\ result = "false"

\* load_cookies has been called and has returned
CookieAuthDone == InEvents("cookie_ok") \/ InEvents("cookie_fail")

\* C29: load_cookies calls the home page at most twice, the profile page at
\* most three times and the alternate URL at most once, and that only after
\* three failures of the profile page; when it does not get to a page to classify it
\* returns false, and with credentials present the run goes on to the password
\* login.
C29_BoundedNavigationRetries ==
    CookieAuthDone =>
        /\ obs.nav.home \in 1 .. 2
        /\ obs.nav.profile \in 0 .. 3
        /\ obs.nav.alt \in 0 .. 1
        /\ obs.nav.alt = 1 => obs.nav.profile = 3
        /\ obs.cookieUrl = "none" => InEvents("cookie_fail")
        /\ (InEvents("cookie_fail") /\ HasCredentials(cfg)) =>
              (rpc = "fallback" \/ InEvents("login_nav"))

\* C29 witness: the home page came at the second attempt, the profile page
\* failed three times and the alternate URL too; load_cookies returned false
\* and the password login was tried
C29_Witness ==
    /\ obs.nav = [home |-> 2, profile |-> 3, alt |-> 1]
    /\ obs.cookieUrl = "none"
    /\ InEvents("cookie_fail")
    /\ InEvents("login_nav")

SourceAge == otp.now - otp.mailbox[otp.source].received

\* C25: a code that wait_for_otp returns comes from a mail not older than
\* max_age_minutes, and not from a mail whose code an earlier run returned.
C25_NeverStaleOrReused ==
    (otp.phase = "done" /\ otp.code # NoCode) =>
        /\ SourceAge <= max_age_minutes * 60
        /\ otp.source \notin otp.used

\* the safety part of C27
C27_Safe ==
    /\ otp.phase = "done" =>
          /\ otp.code = NoCode \/ (Len(otp.code) = 6 /\ \A i \in 1 .. 6 : otp.code[i] \in Digit)
          /\ otp.code = (IF otp.log = <<>> THEN NoCode ELSE otp.log[Len(otp.log)].code)
          /\ otp.code = NoCode => otp.now - otp.start >= otp.timeout
          /\ otp.timeout <= 0 => otp.log = <<>>
    /\ \A k \in 1 .. Len(otp.log) :
          /\ otp.log[k].at < otp.timeout
          /\ k < Len(otp.log) =>
                /\ otp.log[k].code = NoCode
                /\ otp.log[k + 1].at = otp.log[k].end + poll_interval

\* C27: wait_for_otp comes to an end, with a 6-digit code or None: the code is
\* that of the first poll that found one, no poll starts once the elapsed
\* time has reached timeout_seconds, poll_interval lies between the end of a
\* poll and the start of the next, and no poll is made with a timeout that is
\* not positive; a failing poll counts as one that found nothing.
C27_WaitTerminates ==
    /\ []C27_Safe
    /\ (otp.phase = "test") ~> (otp.phase = "done")

\* C27 witness: two polls found nothing, one of them for an error, the third
\* returned the code of a mail that came in meanwhile
C27_Witness ==
    /\ otp.phase = "done"
    /\ Len(otp.log) = 3
    /\ otp.code = <<"3", "3", "3", "3", "3", "3">>
    /\ otp.mailbox[otp.source].received > 0

\* C31: a trigger that passed the first window check sleeps a whole number d
\* of minutes, 1 <= d <= 15, so that 60 to 900 seconds lie between the first
\* check and the re-check; the delay is drawn anew at each firing: before the
\* sleep no delay is set, and each of the 15 values can be the one drawn,
\* whatever the trigger before slept.
C31_JitterInRange ==
    /\ (trig.check1 = "pass" /\ trig.recheckAt # -1) =>
          /\ trig.jitter \in 1 .. 15
          /\ trig.recheckAt - trig.firedAt = trig.jitter
          /\ 60 <= 60 * (trig.recheckAt - trig.firedAt)
          /\ 60 * (trig.recheckAt - trig.firedAt) <= 900
    /\ pc = "jitter" =>
          /\ trig.check1 = "pass" /\ trig.jitter = 0
          /\ now + 15 - started <= MaxElapsed =>
                \A d \in 1 .. 15 : ENABLED (JitterSleep /\ trig'.jitter = d)

\* C31 witness: the startup trigger slept 15 minutes, the hourly trigger after
\* it 3 minutes
C31_Witness ==
    /\ trig.kind = "hourly"
    /\ trig.check1 = "pass"
    /\ trig.lastDelay = 15
    /\ trig.jitter = 3
    /\ trig.recheckAt = trig.firedAt + 3

\* C32: get_otp_from_email has called disconnect when control is back at the
\* caller, whether wait_for_otp returned a code, returned None or raised;
\* disconnect calls logout exactly on a reader that holds a connection, a
\* failing logout raises nothing, so that the caller gets what wait_for_otp
\* gave; a connection is left open only where logout itself failed.
C32_DisconnectOnEveryExit ==
    /\ otp.phase = "closed" =>
          /\ otp.close.called
          /\ otp.close.logout <=> otp.mail # "none"
          /\ ~otp.close.raised
          /\ otp.close.open => otp.close.failed
          /\ otp.exit = "code" <=> otp.code # NoCode
          /\ otp.exit \in {"code", "not_found", "raised"}
          /\ otp.exit = "not_found" => otp.now - otp.start >= otp.timeout
    /\ otp.exit # "none" <=> otp.phase = "closed"
    /\ otp.phase # "closed" => ~otp.close.called

\* C32 witness: wait_for_otp was left by an exception with the reader logged
\* in; logout failed, nothing but the first exception went to the caller
C32_Witness ==
    /\ otp.phase = "closed"
    /\ otp.exit = "raised"
    /\ otp.mail = "auth"
    /\ otp.close.logout /\ otp.close.failed /\ ~otp.close.raised

====
